---- MODULE Spec2Model ----
(***************************************************************************)
(* Model of the ImageTracker of allmycookies/dwd-radar.                    *)
(*                                                                         *)
(* Two variants of the class exist: the whole-field tracker of             *)
(* src/image-tracker.js ("field") and the single-target tracker appended   *)
(* to src/saveSettings.php ("target").  The variable `variant` says which  *)
(* of the two classes the instance is.                                     *)
(*                                                                         *)
(* Conventions                                                             *)
(*  - JS arrays are 0-based, TLA+ sequences 1-based: element i of a JS     *)
(*    array is element i+1 of the sequence.                                *)
(*  - A hex colour "#rrggbb" is the sequence of its six hex digits.        *)
(*  - null (and the empty string, equally falsy) is the empty sequence.    *)
(*  - A JS number that need not be an integer is an exact fraction <<n,d>> *)
(*    with d > 0; Infinity is <<1,0>>.  Square roots are compared through  *)
(*    their squares (sqrt is strictly monotone on the integers involved).  *)
(*  - resultsElement is present (the `if (this.resultsElement)` guards are *)
(*    taken), its textContent is the variable textContent.                 *)
(***************************************************************************)
EXTENDS Integers, Sequences, FiniteSets, TLC

VARIABLES
    variant,         \* "field" (image-tracker.js) or "target" (saveSettings.php)
    legendColorMap,  \* this.legendColorMap: null or an insertion-ordered Map
    selectedColor,   \* this.selectedColor (target variant), <<>> is null
    gridData,        \* this.gridData: sequence of [timestamp, grid]
    isEnabled,       \* this.isEnabled
    textContent,     \* this.resultsElement.textContent
    mapSize,         \* this.map.getSize(): <<x, y>> in pixels (external map)
    appended,        \* history: every record pushed since gridData was last reset
    under,           \* history: the table and colour each of them was rasterized with
    last             \* history: what the last handler did

vars == <<variant, legendColorMap, selectedColor, gridData, isEnabled,
          textContent, mapSize, appended, under, last>>

(***************************************************************************)
(* Program constants                                                       *)
(***************************************************************************)
GRID_SIZE == 10
HISTORY_LIMIT == 10
SEARCH_RADIUS == 5
SEARCH_RADIUS_CENTER == 8
MATCH_TOLERANCE == 100
MIN_VECTORS == 10
LEGEND_ALPHA_MIN == 200
LEGEND_SUM_MAX == 700
GREY_BAND == 10
FRAME_ALPHA_MIN == 128

(***************************************************************************)
(* Small helpers                                                           *)
(***************************************************************************)
Abs(n) == IF n < 0 THEN -n ELSE n

Includes(s, e) == \E i \in 1..Len(s) : s[i] = e

Null == <<>>

\* Fractions <<n, d>>, d > 0; Infinity == <<1, 0>>.
Zero == <<0, 1>>
One == <<1, 1>>
Infinity == <<1, 0>>
FracLess(a, b) == a[1] * b[2] < b[1] * a[2]
FracAbsDiff(a, b) == <<Abs(a[1] * b[2] - b[1] * a[2]), a[2] * b[2]>>
FracEq(a, b) == a[1] * b[2] = b[1] * a[2]

(***************************************************************************)
(* Colours                                                                 *)
(***************************************************************************)
\* `#${r.toString(16).padStart(2,'0')}${g...}${b...}`
ToHex(r, g, b) == <<r \div 16, r % 16, g \div 16, g % 16, b \div 16, b % 16>>

\* parseInt(hex.substring(1,3),16), parseInt(hex.substring(3,5),16), ...
ParseHex(hex) == <<hex[1] * 16 + hex[2], hex[3] * 16 + hex[4], hex[5] * 16 + hex[6]>>

\* color_distance, as the square of the value the code returns.
color_distance(rgb1, rgb2) ==
    LET r_dist == (rgb1[1] - rgb2[1]) * (rgb1[1] - rgb2[1])
        g_dist == (rgb1[2] - rgb2[2]) * (rgb1[2] - rgb2[2])
        b_dist == (rgb1[3] - rgb2[3]) * (rgb1[3] - rgb2[3])
    IN  r_dist + g_dist + b_dist

(***************************************************************************)
(* The JS Map: a sequence of <<key, value>> entries in insertion order.    *)
(***************************************************************************)
NullMap == [isNull |-> TRUE, entries |-> <<>>]

MapKeys(entries) == [i \in 1..Len(entries) |-> entries[i][1]]

MapHas(entries, k) == \E i \in 1..Len(entries) : entries[i][1] = k

MapGet(entries, k) == entries[CHOOSE i \in 1..Len(entries) : entries[i][1] = k][2]

\* Map.prototype.set: an existing key keeps its place and takes the new value.
MapSet(entries, k, v) ==
    IF MapHas(entries, k)
    THEN [i \in 1..Len(entries) |->
            IF entries[i][1] = k THEN <<k, v>> ELSE entries[i]]
    ELSE Append(entries, <<k, v>>)

RECURSIVE MapFromPairs(_, _, _)
\* new Map(pairs): set each pair in turn.
MapFromPairs(pairs, i, acc) ==
    IF i > Len(pairs) THEN acc
    ELSE MapFromPairs(pairs, i + 1, MapSet(acc, pairs[i][1], pairs[i][2]))

\* new Map(colors.map((color, index) => [color, index + 1]))
RankMap(colors) ==
    [isNull |-> FALSE,
     entries |-> MapFromPairs([i \in 1..Len(colors) |-> <<colors[i], i>>], 1, <<>>)]

(***************************************************************************)
(* Legend images: [width, height, px], px[y+1][x+1] an RGBA pixel.         *)
(***************************************************************************)
LegendPixel(img, x, y) == img.px[y + 1][x + 1]

\* a > 200 && (r + g + b < 700)
LegendQualifies(p) ==
    p[4] > LEGEND_ALPHA_MIN /\ p[1] + p[2] + p[3] < LEGEND_SUM_MAX

\* Math.abs(r - g) < 10 && Math.abs(g - b) < 10
IsGrey(p) == Abs(p[1] - p[2]) < GREY_BAND /\ Abs(p[2] - p[3]) < GREY_BAND

\* PushIfNew without the includes() test: every sampled colour is pushed.
PushAlways(colors, hex) == Append(colors, hex)

\* if (!colors.includes(hex)) colors.push(hex)
PushIfNew(colors, hex) == IF Includes(colors, hex) THEN colors ELSE Append(colors, hex)

RECURSIVE ScanCenterColumn(_, _, _)
\* image-tracker.js: scan down the vertical centre of the legend image.
ScanCenterColumn(img, y, colors) ==
    IF y >= img.height THEN colors
    ELSE LET pixel == LegendPixel(img, img.width \div 2, y)
             hex == ToHex(pixel[1], pixel[2], pixel[3])
         IN  ScanCenterColumn(img, y + 1,
                 IF LegendQualifies(pixel) THEN PushIfNew(colors, hex) ELSE colors)

\* image-tracker.js parseLegend, img.onload: the colour list of the legend.
ParseLegendField(img) == ScanCenterColumn(img, 0, <<>>)

RECURSIVE ScanBandRow(_, _, _, _, _)
\* saveSettings.php: one row of the band; stops at the first new colour.
\* acc is [colors, pos]: the colour list and colorPositions (same order).
ScanBandRow(img, y, x, endX, acc) ==
    IF x >= endX THEN acc
    ELSE LET pixel == LegendPixel(img, x, y)
             hex == ToHex(pixel[1], pixel[2], pixel[3])
         IN  IF LegendQualifies(pixel) /\ ~IsGrey(pixel) /\ ~MapHas(acc.pos, hex)
             THEN [colors |-> Append(acc.colors, hex),
                   pos |-> MapSet(acc.pos, hex, y)]
             ELSE ScanBandRow(img, y, x + 1, endX, acc)

RECURSIVE ScanBand(_, _, _)
ScanBand(img, y, acc) ==
    IF y >= img.height THEN acc
    ELSE ScanBand(img, y + 1,
             ScanBandRow(img, y, img.width \div 4, (3 * img.width) \div 4, acc))

RECURSIVE SortInsert(_, _, _)
\* Insert colour c into the sorted list s, after every element that does not
\* compare greater (the sort is stable).
SortInsert(s, c, pos) ==
    IF s = <<>> THEN <<c>>
    ELSE IF MapGet(pos, s[Len(s)]) - MapGet(pos, c) > 0
         THEN Append(SortInsert(SubSeq(s, 1, Len(s) - 1), c, pos), s[Len(s)])
         ELSE Append(s, c)

RECURSIVE SortByPosition(_, _, _, _)
\* colors.sort((a, b) => colorPositions.get(a) - colorPositions.get(b))
SortByPosition(colors, pos, i, acc) ==
    IF i > Len(colors) THEN acc
    ELSE SortByPosition(colors, pos, i + 1, SortInsert(acc, colors[i], pos))

\* saveSettings.php parseLegend, img.onload: the sorted colour list.
ParseLegendTarget(img) ==
    LET scan == ScanBand(img, 0, [colors |-> <<>>, pos |-> <<>>])
    IN  SortByPosition(scan.colors, scan.pos, 1, <<>>)

\* The colour list img.onload builds in the given variant.
LegendColors(v, img) ==
    IF v = "field" THEN ParseLegendField(img) ELSE ParseLegendTarget(img)

(***************************************************************************)
(* findClosestLegendColor (identical in both variants)                     *)
(***************************************************************************)
DistInfinity == 3 * 255 * 255 + 1   \* stands for Infinity among squared distances

RECURSIVE ClosestLoopKeepsLast(_, _, _, _, _)
\* ClosestLoop with `distance <= minDistance`: the last of several closest wins.
ClosestLoopKeepsLast(keys, i, rgb, minDistance, closestColor) ==
    IF i > Len(keys) THEN [minDistance |-> minDistance, closestColor |-> closestColor]
    ELSE LET distance == color_distance(rgb, ParseHex(keys[i]))
         IN  IF distance <= minDistance
             THEN ClosestLoopKeepsLast(keys, i + 1, rgb, distance, keys[i])
             ELSE ClosestLoopKeepsLast(keys, i + 1, rgb, minDistance, closestColor)

RECURSIVE ClosestLoop(_, _, _, _, _)
\* for (const hex of this.legendColorMap.keys()) { ... }
ClosestLoop(keys, i, rgb, minDistance, closestColor) ==
    IF i > Len(keys) THEN [minDistance |-> minDistance, closestColor |-> closestColor]
    ELSE LET distance == color_distance(rgb, ParseHex(keys[i]))
         IN  IF distance < minDistance
             THEN ClosestLoop(keys, i + 1, rgb, distance, keys[i])
             ELSE ClosestLoop(keys, i + 1, rgb, minDistance, closestColor)

\* return minDistance < 100 ? closestColor : null   (on squared distances)
WithinTolerance(minDistance) == minDistance < MATCH_TOLERANCE * MATCH_TOLERANCE

findClosestLegendColor(map, r, g, b) ==
    IF map.isNull \/ Len(map.entries) = 0 THEN Null
    ELSE LET res == ClosestLoop(MapKeys(map.entries), 1, <<r, g, b>>, DistInfinity, Null)
         IN  IF WithinTolerance(res.minDistance) THEN res.closestColor ELSE Null

(***************************************************************************)
(* Frame images: [width, height, blocks].  blocks[cy+1][cx+1] describes    *)
(* the 10x10 block (cx, cy): its first n pixels in row-major order are     *)
(* `first`, the others `rest` (RGBA).  imageData is the flat RGBA array    *)
(* getImageData returns.                                                   *)
(***************************************************************************)
PixelAt(img, x, y) ==
    LET b == img.blocks[(y \div GRID_SIZE) + 1][(x \div GRID_SIZE) + 1]
        k == (y % GRID_SIZE) * GRID_SIZE + (x % GRID_SIZE)
    IN  IF k < b.n THEN b.first ELSE b.rest

\* imageData[i]
ImageData(img, i) ==
    LET p == i \div 4
    IN  PixelAt(img, p % img.width, p \div img.width)[(i % 4) + 1]

(***************************************************************************)
(* analyzeFrame: the rasterizer                                            *)
(***************************************************************************)
\* EnoughPixels with >= in place of >: a tenth of the cell is enough.
EnoughPixelsFromTenth(count) == count * 10 >= GRID_SIZE * GRID_SIZE

\* pixelCount > (this.GRID_SIZE * this.GRID_SIZE) / 10
EnoughPixels(count) == count * 10 > GRID_SIZE * GRID_SIZE

\* The index of pixel (x, y) of cell (gridX, gridY) in imageData.
PixelIndex(img, gridY, gridX, y, x) ==
    ((gridY * GRID_SIZE + y) * img.width + (gridX * GRID_SIZE + x)) * 4

\* imageData[i+3] > 128
Opaque(img, i) == ImageData(img, i + 3) > FRAME_ALPHA_MIN

\* The legend colour of the pixel at imageData[i], Null when there is none.
ClosestAt(img, map, i) ==
    findClosestLegendColor(map, ImageData(img, i), ImageData(img, i + 1),
                           ImageData(img, i + 2))

RECURSIVE IntensityRow(_, _, _, _, _, _)
\* image-tracker.js: what the loop over x adds to <<totalIntensity, pixelCount>>
\* from pixel x on, in pixel row y of a cell.
IntensityRow(img, map, gridY, gridX, y, x) ==
    IF x >= GRID_SIZE THEN <<0, 0>>
    ELSE LET i == PixelIndex(img, gridY, gridX, y, x)
             closestColorHex == ClosestAt(img, map, i)
             rest == IntensityRow(img, map, gridY, gridX, y, x + 1)
         IN  IF Opaque(img, i) /\ closestColorHex # Null
             THEN <<MapGet(map.entries, closestColorHex) + rest[1], 1 + rest[2]>>
             ELSE rest

RECURSIVE IntensityRows(_, _, _, _, _)
\* What the loop over y adds from pixel row y on.
IntensityRows(img, map, gridY, gridX, y) ==
    IF y >= GRID_SIZE THEN <<0, 0>>
    ELSE LET row == IntensityRow(img, map, gridY, gridX, y, 0)
             rest == IntensityRows(img, map, gridY, gridX, y + 1)
         IN  <<row[1] + rest[1], row[2] + rest[2]>>

\* currentGrid[gridY][gridX] = totalIntensity / pixelCount, or the initial 0.
CellIntensity(img, map, gridY, gridX) ==
    LET acc == IntensityRows(img, map, gridY, gridX, 0)
    IN  IF EnoughPixels(acc[2]) THEN acc ELSE Zero

RECURSIVE TargetRow(_, _, _, _, _, _, _)
\* saveSettings.php: what the loop over x adds to targetColorPixels from
\* pixel x on, in pixel row y of a cell.
TargetRow(img, map, sel, gridY, gridX, y, x) ==
    IF x >= GRID_SIZE THEN 0
    ELSE LET i == PixelIndex(img, gridY, gridX, y, x)
             rest == TargetRow(img, map, sel, gridY, gridX, y, x + 1)
         IN  IF Opaque(img, i) /\ ClosestAt(img, map, i) = sel
             THEN 1 + rest
             ELSE rest

RECURSIVE TargetRows(_, _, _, _, _, _)
\* What the loop over y adds from pixel row y on.
TargetRows(img, map, sel, gridY, gridX, y) ==
    IF y >= GRID_SIZE THEN 0
    ELSE TargetRow(img, map, sel, gridY, gridX, y, 0)
           + TargetRows(img, map, sel, gridY, gridX, y + 1)

\* currentGrid[gridY][gridX] = 1, or the initial 0.
CellTarget(img, map, sel, gridY, gridX) ==
    IF EnoughPixels(TargetRows(img, map, sel, gridY, gridX, 0)) THEN One ELSE Zero

\* currentGrid of analyzeFrame: rows x cols cells.
Rasterize(v, img, map, sel) ==
    LET cols == img.width \div GRID_SIZE
        rows == img.height \div GRID_SIZE
    IN  [gy \in 1..rows |-> [gx \in 1..cols |->
            IF v = "field"
            THEN CellIntensity(img, map, gy - 1, gx - 1)
            ELSE CellTarget(img, map, sel, gy - 1, gx - 1)]]

(***************************************************************************)
(* Grids and timestamps                                                    *)
(***************************************************************************)
GridRows(grid) == Len(grid)
\* grid[0].length; the caller has checked that grid[0] exists.
GridCols(grid) == Len(grid[1])
HasRow(grid, y) == y >= 0 /\ y < Len(grid)
HasCell(grid, y, x) == HasRow(grid, y) /\ x >= 0 /\ x < Len(grid[y + 1])
Cell(grid, y, x) == grid[y + 1][x + 1]

\* A timestamp string is <<instant, spelling>>: two spellings of one instant
\* are different strings that new Date() parses to the same time (seconds).
DateOf(ts) == ts[1]

(***************************************************************************)
(* textContent values                                                      *)
(***************************************************************************)
Text(msg) == [msg |-> msg, dxPixels |-> Zero, dyPixels |-> Zero, seconds |-> 0]
\* `~ ${speedKph.toFixed(1)} km/h`: the speed the external map derives from
\* the pixel displacement, over the elapsed seconds.
SpeedText(dxPixels, dyPixels, seconds) ==
    [msg |-> "speed", dxPixels |-> dxPixels, dyPixels |-> dyPixels, seconds |-> seconds]

TEXT_INITIAL == Text("")
TEXT_DISABLED == Text("--")
TEXT_WAITING == Text("Warte auf Daten...")
TEXT_UNCLEAR == Text("Bewegung unklar")
TEXT_STATIONARY == Text("Stationaer")
TEXT_NO_TARGET == Text("Keine Zieldaten am Fadenkreuz")

(***************************************************************************)
(* calculateSpeed                                                          *)
(***************************************************************************)
\* Result of an estimator call: whether it threw, the textContent it leaves,
\* whether calculateSpeed was called and with which displacement (cells).
Outcome(threw, text, speedCall, dx, dy, count) ==
    [threw |-> threw, text |-> text, speedCall |-> speedCall,
     dxCells |-> dx, dyCells |-> dy, vectorCount |-> count]

Times(f, k) == <<f[1] * k, f[2]>>

\* image-tracker.js: pixelDistance < 1, on the squares.
PixelDistanceBelowOne(dxPixels, dyPixels) ==
    dxPixels[1] * dxPixels[1] * dyPixels[2] * dyPixels[2]
      + dyPixels[1] * dyPixels[1] * dxPixels[2] * dxPixels[2]
        < dxPixels[2] * dxPixels[2] * dyPixels[2] * dyPixels[2]

\* The stationary test of the variant.
IsStationary(v, dxCells, dyCells) ==
    IF v = "field"
    THEN PixelDistanceBelowOne(Times(dxCells, GRID_SIZE), Times(dyCells, GRID_SIZE))
    ELSE dxCells[1] = 0 /\ dyCells[1] = 0

\* StaleTime with `timeDiffSeconds < 0`: an elapsed time of zero passes.
StaleTimeStrict(time1, time2) == DateOf(time2) - DateOf(time1) < 0

\* if (timeDiffSeconds <= 0) return;
StaleTime(time1, time2) == DateOf(time2) - DateOf(time1) <= 0

\* calculateSpeed with the elapsed-time check moved before the stationary test.
calculateSpeedChecksTimeFirst(v, dxCells, dyCells, time1, time2, text) ==
    IF StaleTime(time1, time2) THEN text
    ELSE IF IsStationary(v, dxCells, dyCells) THEN TEXT_STATIONARY
    ELSE SpeedText(Times(dxCells, GRID_SIZE), Times(dyCells, GRID_SIZE),
                   DateOf(time2) - DateOf(time1))

\* calculateSpeed: the textContent it leaves, given the one it finds.
calculateSpeed(v, dxCells, dyCells, time1, time2, text) ==
    IF IsStationary(v, dxCells, dyCells) THEN TEXT_STATIONARY
    ELSE IF StaleTime(time1, time2) THEN text
    ELSE SpeedText(Times(dxCells, GRID_SIZE), Times(dyCells, GRID_SIZE),
                   DateOf(time2) - DateOf(time1))

(***************************************************************************)
(* trackMovement (image-tracker.js)                                        *)
(***************************************************************************)
NoMatch == [x |-> -1, y |-> -1, error |-> Infinity, threw |-> FALSE]

\* grid1[y][x] > 0.1
HasRain(value) == value[1] * 10 > value[2]

\* Reasonable with 3 in place of 0.5.
ReasonableBelowThree(error) == error[1] < 3 * error[2]

\* bestMatch.error < 0.5
Reasonable(error) == 2 * error[1] < error[2]

RECURSIVE SearchRow(_, _, _, _, _, _, _, _, _)
\* The loop over searchX for one searchY.  grid2[newY] of a missing row is
\* undefined and indexing it throws; a missing cell of an existing row is
\* undefined, the error NaN, never less.
SearchRow(grid1, grid2, rows, cols, y, x, searchY, searchX, bestMatch) ==
    IF searchX > SEARCH_RADIUS \/ bestMatch.threw THEN bestMatch
    ELSE LET newY == y + searchY
             newX == x + searchX
         IN  IF newY >= 0 /\ newY < rows /\ newX >= 0 /\ newX < cols
             THEN IF ~HasRow(grid2, newY) THEN [bestMatch EXCEPT !.threw = TRUE]
                  ELSE IF ~HasCell(grid2, newY, newX)
                  THEN SearchRow(grid1, grid2, rows, cols, y, x, searchY, searchX + 1,
                                 bestMatch)
                  ELSE LET error == FracAbsDiff(Cell(grid1, y, x), Cell(grid2, newY, newX))
                       IN  IF FracLess(error, bestMatch.error)
                           THEN SearchRow(grid1, grid2, rows, cols, y, x, searchY,
                                    searchX + 1,
                                    [x |-> newX, y |-> newY, error |-> error,
                                     threw |-> FALSE])
                           ELSE SearchRow(grid1, grid2, rows, cols, y, x, searchY,
                                          searchX + 1, bestMatch)
             ELSE SearchRow(grid1, grid2, rows, cols, y, x, searchY, searchX + 1,
                            bestMatch)

RECURSIVE SearchWindow(_, _, _, _, _, _, _, _)
\* The loop over searchY: the best match of cell (x, y).
SearchWindow(grid1, grid2, rows, cols, y, x, searchY, bestMatch) ==
    IF searchY > SEARCH_RADIUS \/ bestMatch.threw THEN bestMatch
    ELSE SearchWindow(grid1, grid2, rows, cols, y, x, searchY + 1,
             SearchRow(grid1, grid2, rows, cols, y, x, searchY, -SEARCH_RADIUS,
                       bestMatch))

\* The body of the cell loops for cell (x, y); acc is
\* [totalDx, totalDy, vectorCount, threw].
AddVector(grid1, grid2, rows, cols, y, x, acc) ==
    IF HasRain(Cell(grid1, y, x))
    THEN LET bestMatch == SearchWindow(grid1, grid2, rows, cols, y, x,
                                       -SEARCH_RADIUS, NoMatch)
         IN  IF bestMatch.threw THEN [acc EXCEPT !.threw = TRUE]
             ELSE IF Reasonable(bestMatch.error)
             THEN [totalDx |-> acc.totalDx + (bestMatch.x - x),
                   totalDy |-> acc.totalDy + (bestMatch.y - y),
                   vectorCount |-> acc.vectorCount + 1,
                   threw |-> FALSE]
             ELSE acc
    ELSE acc

RECURSIVE VectorsRow(_, _, _, _, _, _, _)
\* The loop over x of row y.
VectorsRow(grid1, grid2, rows, cols, y, x, acc) ==
    IF x >= cols \/ acc.threw THEN acc
    ELSE VectorsRow(grid1, grid2, rows, cols, y, x + 1,
                    AddVector(grid1, grid2, rows, cols, y, x, acc))

RECURSIVE SumVectors(_, _, _, _, _, _)
\* The loop over y.
SumVectors(grid1, grid2, rows, cols, y, acc) ==
    IF y >= rows \/ acc.threw THEN acc
    ELSE SumVectors(grid1, grid2, rows, cols, y + 1,
                    VectorsRow(grid1, grid2, rows, cols, y, 0, acc))

\* vectorCount > 10
StableResult(vectorCount) == vectorCount > MIN_VECTORS

trackMovement(gridData1, gridData2, text) ==
    LET grid1 == gridData1.grid
        grid2 == gridData2.grid
    IN  IF GridRows(grid1) = 0
        THEN Outcome(TRUE, text, FALSE, Zero, Zero, 0)   \* grid1[0].length throws
        ELSE LET rows == GridRows(grid1)
                 cols == GridCols(grid1)
                 sum == SumVectors(grid1, grid2, rows, cols, 0,
                            [totalDx |-> 0, totalDy |-> 0, vectorCount |-> 0,
                             threw |-> FALSE])
             IN  IF sum.threw THEN Outcome(TRUE, text, FALSE, Zero, Zero, 0)
                 ELSE IF StableResult(sum.vectorCount)
                 THEN LET avgDx == <<sum.totalDx, sum.vectorCount>>
                          avgDy == <<sum.totalDy, sum.vectorCount>>
                      IN  Outcome(FALSE,
                                  calculateSpeed("field", avgDx, avgDy,
                                      gridData1.timestamp, gridData2.timestamp, text),
                                  TRUE, avgDx, avgDy, sum.vectorCount)
                 ELSE Outcome(FALSE, TEXT_UNCLEAR, FALSE, Zero, Zero, sum.vectorCount)

(***************************************************************************)
(* trackMovementFromCenter (saveSettings.php)                              *)
(***************************************************************************)
NotFound == [x |-> -1, y |-> -1, found |-> FALSE, minDistanceSq |-> Infinity,
             threw |-> FALSE]

RECURSIVE SearchCenterRow(_, _, _, _, _, _, _, _)
\* The loop over sX for one sY.
SearchCenterRow(grid2, rows, cols, startY, startX, sY, sX, bestMatch) ==
    IF sX > SEARCH_RADIUS_CENTER \/ bestMatch.threw THEN bestMatch
    ELSE LET newY == startY + sY
             newX == startX + sX
             distanceSq == <<sX * sX + sY * sY, 1>>
         IN  IF newY >= 0 /\ newY < rows /\ newX >= 0 /\ newX < cols
             THEN IF ~HasRow(grid2, newY) THEN [bestMatch EXCEPT !.threw = TRUE]
                  ELSE IF HasCell(grid2, newY, newX) /\ Cell(grid2, newY, newX) = One
                          /\ FracLess(distanceSq, bestMatch.minDistanceSq)
                  THEN SearchCenterRow(grid2, rows, cols, startY, startX, sY, sX + 1,
                           [x |-> newX, y |-> newY, found |-> TRUE,
                            minDistanceSq |-> distanceSq, threw |-> FALSE])
                  ELSE SearchCenterRow(grid2, rows, cols, startY, startX, sY, sX + 1,
                                       bestMatch)
             ELSE SearchCenterRow(grid2, rows, cols, startY, startX, sY, sX + 1,
                                  bestMatch)

RECURSIVE SearchCenter(_, _, _, _, _, _, _)
\* The loop over sY: the nearest active cell around (startX, startY).
SearchCenter(grid2, rows, cols, startY, startX, sY, bestMatch) ==
    IF sY > SEARCH_RADIUS_CENTER \/ bestMatch.threw THEN bestMatch
    ELSE SearchCenter(grid2, rows, cols, startY, startX, sY + 1,
             SearchCenterRow(grid2, rows, cols, startY, startX, sY,
                             -SEARCH_RADIUS_CENTER, bestMatch))

\* Math.floor((mapSize.x / 2) / GRID_SIZE), Math.floor((mapSize.y / 2) / GRID_SIZE)
StartCell(size) == <<size[1] \div (2 * GRID_SIZE), size[2] \div (2 * GRID_SIZE)>>

\* grid1[startY] && grid1[startY][startX] === 1
TargetAtReference(grid1, startY, startX) ==
    HasCell(grid1, startY, startX) /\ Cell(grid1, startY, startX) = One

trackMovementFromCenter(gridData1, gridData2, size, text) ==
    LET grid1 == gridData1.grid
        grid2 == gridData2.grid
        startX == StartCell(size)[1]
        startY == StartCell(size)[2]
    IN  IF GridRows(grid1) = 0
        THEN Outcome(TRUE, text, FALSE, Zero, Zero, 0)   \* grid1[0].length throws
        ELSE IF TargetAtReference(grid1, startY, startX)
        THEN LET bestMatch == SearchCenter(grid2, GridRows(grid1), GridCols(grid1),
                                           startY, startX, -SEARCH_RADIUS_CENTER, NotFound)
             IN  IF bestMatch.threw THEN Outcome(TRUE, text, FALSE, Zero, Zero, 0)
                 ELSE IF bestMatch.found
                 THEN LET dxCells == <<bestMatch.x - startX, 1>>
                          dyCells == <<bestMatch.y - startY, 1>>
                      IN  Outcome(FALSE,
                                  calculateSpeed("target", dxCells, dyCells,
                                      gridData1.timestamp, gridData2.timestamp, text),
                                  TRUE, dxCells, dyCells, 1)
                 ELSE Outcome(FALSE, TEXT_UNCLEAR, FALSE, Zero, Zero, 0)
        ELSE Outcome(FALSE, TEXT_NO_TARGET, FALSE, Zero, Zero, 0)

\* The estimator analyzeFrame calls in the given variant.
Estimate(v, gridData1, gridData2, size, text) ==
    IF v = "field" THEN trackMovement(gridData1, gridData2, text)
    ELSE trackMovementFromCenter(gridData1, gridData2, size, text)

(***************************************************************************)
(* The handlers                                                            *)
(***************************************************************************)
NoRecord == [timestamp |-> <<0, 0>>, grid |-> <<>>]
NoImage == [width |-> 0, height |-> 0, px |-> <<>>]
NoOutcome == Outcome(FALSE, TEXT_INITIAL, FALSE, Zero, Zero, 0)

\* The history record of a handler run; the fields a handler does not use
\* keep the values below.
Blank(op) ==
    [op |-> op,
     ran |-> FALSE,             \* analyzeFrame passed its first check
     threw |-> FALSE,           \* analyzeFrame ended by a TypeError
     pushed |-> FALSE,          \* analyzeFrame pushed the new record
     estCalls |-> 0,            \* calls of the estimator in this run
     estOld |-> NoRecord,       \* the estimator's arguments
     estNew |-> NoRecord,
     out |-> NoOutcome,         \* what the estimator did
     newRecord |-> NoRecord,    \* newGridData
     img |-> NoImage,           \* the image of img.onload or of analyzeFrame
     rejected |-> FALSE,        \* the promise of parseLegend was rejected
     rgb |-> <<0, 0, 0>>,       \* argument and result of findClosestLegendColor
     hex |-> Null,
     prevText |-> TEXT_INITIAL, \* the state the handler found
     prevGridData |-> <<>>,
     prevLegend |-> NullMap,    \* the Map a rejected parseLegend found
     dropped |-> FALSE,         \* parseLegend found a key it did not store again
     cleared |-> FALSE]         \* setAnalysisEnabled(false) found records in gridData

\* The record of a handler whose run is compared with the state it found.
Did(op) ==
    [Blank(op) EXCEPT !.prevText = textContent, !.prevGridData = gridData]

\* saveSettings.php setSelectedColor
SetSelectedColor(hexColor) ==
    /\ variant = "target"
    /\ selectedColor' = hexColor
    /\ gridData' = <<>>
    /\ textContent' = TEXT_WAITING
    /\ appended' = <<>>
    /\ under' = <<>>
    /\ last' = Blank("setSelectedColor")
    /\ UNCHANGED <<variant, legendColorMap, isEnabled, mapSize>>

\* SetAnalysisEnabled without `this.gridData = []`.
SetAnalysisEnabledKeepsHistory(enabled) ==
    /\ isEnabled' = enabled
    /\ IF enabled
       THEN UNCHANGED textContent
       ELSE textContent' = TEXT_DISABLED
    /\ last' = [Blank("setAnalysisEnabled") EXCEPT
                   !.cleared = (~enabled /\ gridData # <<>>)]
    /\ UNCHANGED <<variant, legendColorMap, selectedColor, mapSize, gridData,
                   appended, under>>

\* setAnalysisEnabled (both variants)
SetAnalysisEnabled(enabled) ==
    /\ isEnabled' = enabled
    /\ IF enabled
       THEN UNCHANGED <<gridData, textContent, appended, under>>
       ELSE /\ gridData' = <<>>
            /\ textContent' = TEXT_DISABLED
            /\ appended' = <<>>
            /\ under' = <<>>
    /\ last' = [Blank("setAnalysisEnabled") EXCEPT
                   !.cleared = (~enabled /\ gridData # <<>>)]
    /\ UNCHANGED <<variant, legendColorMap, selectedColor, mapSize>>

\* The Map img.onload stores before it looks at its size.
LegendMapOf(v, img) == RankMap(LegendColors(v, img))

\* parseLegend, img.onload: parseLegend itself only creates the Image and
\* installs the two handlers; the state changes when the image has loaded.
LegendLoad(img) ==
    /\ legendColorMap' = LegendMapOf(variant, img)
    /\ last' = [Did("legendLoad") EXCEPT
                   !.img = img,
                   !.rejected = (Len(legendColorMap'.entries) = 0),
                   !.prevLegend = IF Len(legendColorMap'.entries) = 0
                                  THEN legendColorMap ELSE NullMap,
                   !.dropped = \E k \in 1..Len(legendColorMap.entries) :
                                  ~MapHas(legendColorMap'.entries,
                                          legendColorMap.entries[k][1])]
    /\ UNCHANGED <<variant, selectedColor, gridData, isEnabled, textContent,
                   mapSize, appended, under>>

\* parseLegend, img.onerror
LegendError ==
    /\ last' = [Did("legendError") EXCEPT !.rejected = TRUE,
                                           !.prevLegend = legendColorMap]
    /\ UNCHANGED <<variant, legendColorMap, selectedColor, gridData, isEnabled,
                   textContent, mapSize, appended, under>>

\* if (!this.isEnabled || !this.legendColorMap) return;      (image-tracker.js)
\* if (!this.isEnabled || !this.selectedColor) return;       (saveSettings.php)
AnalysisOff ==
    \/ ~isEnabled
    \/ IF variant = "field" THEN legendColorMap.isNull ELSE selectedColor = Null

\* PushLimited with pop() in place of shift(): the newest record is dropped.
PushLimitedDropsNewest(history, record) ==
    LET pushed == Append(history, record)
    IN  IF Len(pushed) > HISTORY_LIMIT THEN SubSeq(pushed, 1, Len(pushed) - 1) ELSE pushed

\* this.gridData.push(newGridData); if (this.gridData.length > 10) this.gridData.shift();
PushLimited(history, record) ==
    LET pushed == Append(history, record)
    IN  IF Len(pushed) > HISTORY_LIMIT THEN Tail(pushed) ELSE pushed

\* ShouldTrack without the comparison of the timestamps.
ShouldTrackAlways(history, timestamp) == Len(history) > 0

\* lastGridData && lastGridData.timestamp !== newGridData.timestamp
ShouldTrack(history, timestamp) ==
    Len(history) > 0 /\ history[Len(history)].timestamp # timestamp

\* What the rasterizer of analyzeFrame reads besides the frame:
\* this.legendColorMap (findClosestLegendColor) and this.selectedColor.
RasterizedWith == [legendColorMap |-> legendColorMap, selectedColor |-> selectedColor]

\* The same for a grid that is given, not rasterized.
NotRasterized == [legendColorMap |-> NullMap, selectedColor |-> Null]

\* analyzeFrame from `const lastGridData = ...` on, currentGrid being built.
Analyze(img, with, currentGrid, timestamp) ==
    LET newGridData == [timestamp |-> timestamp, grid |-> currentGrid]
        track == ShouldTrack(gridData, timestamp)
        lastGridData == IF Len(gridData) > 0 THEN gridData[Len(gridData)] ELSE NoRecord
    IN  \E out \in {IF track
                     THEN Estimate(variant, lastGridData, newGridData, mapSize,
                                   textContent)
                     ELSE NoOutcome} :
            LET did == [Did("analyzeFrame") EXCEPT
                           !.ran = TRUE,
                           !.img = img,
                           !.newRecord = newGridData,
                           !.estCalls = IF track THEN 1 ELSE 0,
                           !.estOld = IF track THEN lastGridData ELSE NoRecord,
                           !.estNew = IF track THEN newGridData ELSE NoRecord,
                           !.out = out]
            IN  IF track /\ out.threw
                THEN /\ last' = [did EXCEPT !.threw = TRUE]
                     /\ UNCHANGED <<gridData, textContent, appended, under>>
                ELSE /\ textContent' = IF track THEN out.text ELSE textContent
                     /\ gridData' = PushLimited(gridData, newGridData)
                     /\ appended' = Append(appended, newGridData)
                     /\ under' = Append(under, with)
                     /\ last' = [did EXCEPT !.pushed = TRUE]

\* analyzeFrame(imageElement, timestamp)
AnalyzeFrame(img, timestamp) ==
    /\ IF AnalysisOff
       THEN /\ last' = Did("analyzeFrame")
            /\ UNCHANGED <<gridData, textContent, appended, under>>
       ELSE \E currentGrid \in {Rasterize(variant, img, legendColorMap, selectedColor)} :
                Analyze(img, RasterizedWith, currentGrid, timestamp)
    /\ UNCHANGED <<variant, legendColorMap, selectedColor, isEnabled, mapSize>>

\* analyzeFrame on a frame whose grid is given: the rasterizer's result is
\* the input, the rest of the handler is the code's.
AnalyzeGrid(grid, timestamp) ==
    /\ IF AnalysisOff
       THEN /\ last' = Did("analyzeFrame")
            /\ UNCHANGED <<gridData, textContent, appended, under>>
       ELSE Analyze(NoImage, NotRasterized, grid, timestamp)
    /\ UNCHANGED <<variant, legendColorMap, selectedColor, isEnabled, mapSize>>

\* findClosestLegendColor(r, g, b) called on its own.
Classify(rgb) ==
    /\ last' = [Did("classify") EXCEPT
                   !.rgb = rgb,
                   !.hex = findClosestLegendColor(legendColorMap, rgb[1], rgb[2], rgb[3])]
    /\ UNCHANGED <<variant, legendColorMap, selectedColor, gridData, isEnabled,
                   textContent, mapSize, appended, under>>

\* The state the constructor leaves.
Constructed(v, size) ==
    /\ variant = v
    /\ legendColorMap = NullMap
    /\ selectedColor = Null
    /\ gridData = <<>>
    /\ isEnabled = FALSE
    /\ textContent = TEXT_INITIAL
    /\ mapSize = size
    /\ appended = <<>>
    /\ under = <<>>
    /\ last = Blank("constructor")

(***************************************************************************)
(* Inputs                                                                  *)
(***************************************************************************)
RED == <<255, 0, 0, 255>>
BLUE == <<0, 0, 255, 255>>
GREEN == <<0, 255, 0, 255>>
WHITE == <<255, 255, 255, 255>>
GREY == <<128, 128, 128, 255>>
CLEAR == <<0, 0, 0, 0>>

HexOf(p) == ToHex(p[1], p[2], p[3])

\* A legend image four pixels wide: a white margin left and right, the two
\* pixels of each row of `rows` in the middle (x = 1, 2; the centre column
\* is x = 2, the band of the middle half is x = 1, 2).
Legend(rows) ==
    [width |-> 4, height |-> Len(rows),
     px |-> [y \in 1..Len(rows) |-> <<WHITE, rows[y][1], rows[y][2], WHITE>>]]

LEGEND_RED_BLUE == Legend(<<<<RED, RED>>, <<BLUE, BLUE>>>>)
LEGEND_BLANK == Legend(<<<<WHITE, WHITE>>, <<CLEAR, CLEAR>>>>)

Block(n, first, rest) == [n |-> n, first |-> first, rest |-> rest]

\* A frame image from its blocks (rows of 10x10 blocks).
Frame(width, height, blocks) == [width |-> width, height |-> height, blocks |-> blocks]

FRAME_RED == Frame(10, 10, <<<<Block(20, RED, CLEAR)>>>>)
FRAME_CLEAR == Frame(10, 10, <<<<Block(0, RED, CLEAR)>>>>)
FRAME_SHORT == Frame(10, 5, <<<<Block(20, RED, CLEAR)>>>>)
FRAME_TALL == Frame(10, 20, <<<<Block(20, RED, CLEAR)>>, <<Block(0, RED, CLEAR)>>>>)

(***************************************************************************)
(* Spec: the tracker driven by small frames                                *)
(***************************************************************************)
MaxFrames == 2

Legends == {LEGEND_RED_BLUE, LEGEND_BLANK}
SelectableColors == {HexOf(RED), Null}
Frames == {FRAME_RED, FRAME_CLEAR, FRAME_SHORT, FRAME_TALL}
Timestamps == {<<1, 0>>, <<2, 0>>}

Init == \E v \in {"field", "target"} : Constructed(v, <<10, 10>>)

Next ==
    \/ \E enabled \in BOOLEAN : SetAnalysisEnabled(enabled)
    \/ \E hexColor \in SelectableColors : SetSelectedColor(hexColor)
    \/ \E img \in Legends : LegendLoad(img)
    \/ LegendError
    \/ /\ Len(appended) < MaxFrames
       /\ \E img \in Frames, timestamp \in Timestamps : AnalyzeFrame(img, timestamp)

Spec == Init /\ [][Next]_vars

(***************************************************************************)
(* SpecHistory: long runs of frames                                        *)
(***************************************************************************)
MaxHistoryFrames == 11

\* The frames of a playback: each has the next instant as its timestamp.
HistoryClock == <<Len(appended) + 1, 0>>

InitHistory == \E v \in {"field", "target"} : Constructed(v, <<10, 10>>)

NextHistory ==
    \/ \E enabled \in BOOLEAN : SetAnalysisEnabled(enabled)
    \/ SetSelectedColor(HexOf(RED))
    \/ LegendLoad(LEGEND_RED_BLUE)
    \/ /\ Len(appended) < MaxHistoryFrames
       /\ AnalyzeFrame(FRAME_RED, HistoryClock)

SpecHistory == InitHistory /\ [][NextHistory]_vars

(***************************************************************************)
(* SpecClassify: findClosestLegendColor on small tables                    *)
(***************************************************************************)
DARK_RED == <<100, 0, 0, 255>>
DARK_GREEN == <<0, 100, 0, 255>>
PURPLE == <<100, 0, 60, 255>>

ClassifyLegends ==
    {Legend(<<<<DARK_RED, DARK_RED>>>>),
     Legend(<<<<DARK_RED, DARK_RED>>, <<DARK_GREEN, DARK_GREEN>>>>),
     Legend(<<<<DARK_GREEN, DARK_GREEN>>, <<DARK_RED, DARK_RED>>>>),
     Legend(<<<<DARK_RED, DARK_RED>>, <<DARK_GREEN, DARK_GREEN>>, <<PURPLE, PURPLE>>>>),
     Legend(<<<<PURPLE, PURPLE>>, <<DARK_GREEN, DARK_GREEN>>, <<DARK_RED, DARK_RED>>>>),
     LEGEND_BLANK}

\* Pixels at distance 0, below 100, exactly 100 and above 100 of the entries,
\* and pixels equally far from two of them.
ClassifyPixels ==
    {<<100, 0, 0>>, <<0, 100, 0>>, <<0, 0, 0>>, <<50, 50, 0>>, <<199, 0, 0>>,
     <<200, 0, 0>>, <<201, 0, 0>>, <<160, 80, 0>>, <<100, 0, 30>>, <<100, 0, 31>>,
     <<255, 255, 255>>}

InitClassify == \E v \in {"field", "target"} : Constructed(v, <<10, 10>>)

NextClassify ==
    \/ \E img \in ClassifyLegends : LegendLoad(img)
    \/ \E rgb \in ClassifyPixels : Classify(rgb)

SpecClassify == InitClassify /\ [][NextClassify]_vars

(***************************************************************************)
(* SpecLegend: parseLegend on every legend of up to MaxLegendRows rows     *)
(***************************************************************************)
MaxLegendRows == 3

LegendRowKinds ==
    {<<RED, RED>>, <<GREEN, GREEN>>, <<WHITE, WHITE>>, <<RED, BLUE>>,
     <<DARK_RED, GREY>>}

LegendImages ==
    {Legend(rows) : rows \in UNION {[1..h -> LegendRowKinds] : h \in 1..MaxLegendRows}}

InitLegend == \E v \in {"field", "target"} : Constructed(v, <<10, 10>>)

NextLegend ==
    \/ \E img \in LegendImages : LegendLoad(img)
    \/ LegendError

SpecLegend == InitLegend /\ [][NextLegend]_vars

(***************************************************************************)
(* SpecTrack: the estimators on pairs of grids.  The grids are grids the   *)
(* rasterizer produces: in image-tracker.js a cell is 0 or the mean rank   *)
(* of at least 11 pixels under a legend of two colours (here of 20 pixels, *)
(* k of them of rank 2: (20 + k) / 20), in saveSettings.php it is 0 or 1.  *)
(* Frames of differing sizes give grids of differing dimensions, a frame   *)
(* less than 10 pixels high the grid without rows.                         *)
(***************************************************************************)
MaxTrackFrames == 2

GRID_NONE == <<>>

\* One row of 12 cells: the cells 0..10 hold eleven distinct values.
F_RAMP == <<[x \in 1..12 |-> IF x <= 11 THEN <<20 + (x - 1), 20>> ELSE Zero]>>
\* F_RAMP with the value of cell 10 moved to cell 11.
F_RAMP_MOVED ==
    <<[x \in 1..12 |-> IF x <= 10 THEN <<20 + (x - 1), 20>>
                       ELSE IF x = 11 THEN Zero ELSE <<30, 20>>]>>
\* F_RAMP with every value moved one cell to the right.
F_RAMP_SHIFT == <<[x \in 1..12 |-> IF x = 1 THEN Zero ELSE <<20 + (x - 2), 20>>]>>
\* Every cell 1.5: at distance exactly 0.5 of the value 1 of cell 0 of F_RAMP.
F_HALF == <<[x \in 1..12 |-> <<30, 20>>]>>
\* Two rows of six cells, twelve distinct values.
F_TWO_ROWS == [y \in 1..2 |-> [x \in 1..6 |-> <<20 + 6 * (y - 1) + (x - 1), 20>>]]

FieldGrids == {F_RAMP, F_RAMP_MOVED, F_RAMP_SHIFT, F_HALF, F_TWO_ROWS, GRID_NONE}

\* A grid of saveSettings.php: the cells <<x, y>> of `active` are 1.
TargetGrid(rows, cols, active) ==
    [y \in 1..rows |-> [x \in 1..cols |->
        IF <<x - 1, y - 1>> \in active THEN One ELSE Zero]]

T_CENTER == TargetGrid(3, 3, {<<1, 1>>})
\* From the cell (1, 1): (0, 0) at squared distance 2 comes first in the
\* scan, (2, 1) and (1, 2) at squared distance 1 come later.
T_CORNER == TargetGrid(3, 3, {<<0, 0>>, <<2, 1>>, <<1, 2>>})
T_ROW0 == TargetGrid(1, 10, {<<0, 0>>})
T_ROW8 == TargetGrid(1, 10, {<<8, 0>>})
T_ROW9 == TargetGrid(1, 10, {<<9, 0>>})

TargetGrids == {T_CENTER, T_CORNER, T_ROW0, T_ROW8, T_ROW9, GRID_NONE}

\* Two spellings of the instant 2, and the earlier instant 1.
TrackTimestamps == {<<1, 0>>, <<2, 0>>, <<2, 1>>}

InitTrack ==
    \/ Constructed("field", <<10, 10>>)
    \/ \E size \in {<<10, 10>>, <<30, 30>>} : Constructed("target", size)

NextTrack ==
    \/ \E enabled \in BOOLEAN : SetAnalysisEnabled(enabled)
    \/ SetSelectedColor(HexOf(RED))
    \/ LegendLoad(LEGEND_RED_BLUE)
    \/ /\ Len(appended) < MaxTrackFrames
       /\ \E grid \in (IF variant = "field" THEN FieldGrids ELSE TargetGrids),
             timestamp \in TrackTimestamps : AnalyzeGrid(grid, timestamp)

SpecTrack == InitTrack /\ [][NextTrack]_vars

(***************************************************************************)
(* SpecConfig: the legend and the target colour change between frames      *)
(***************************************************************************)
MaxConfigFrames == 2

LEGEND_BLUE_RED == Legend(<<<<BLUE, BLUE>>, <<RED, RED>>>>)
LEGEND_BLUE == Legend(<<<<BLUE, BLUE>>>>)
FRAME_BLUE == Frame(10, 10, <<<<Block(20, BLUE, CLEAR)>>>>)

ConfigLegends == {LEGEND_RED_BLUE, LEGEND_BLUE_RED, LEGEND_BLUE}
ConfigColors == {HexOf(RED), HexOf(BLUE)}
ConfigFrames == {FRAME_RED, FRAME_BLUE}

InitConfig == \E v \in {"field", "target"} : Constructed(v, <<10, 10>>)

NextConfig ==
    \/ \E enabled \in BOOLEAN : SetAnalysisEnabled(enabled)
    \/ \E hexColor \in ConfigColors : SetSelectedColor(hexColor)
    \/ \E img \in ConfigLegends : LegendLoad(img)
    \/ /\ Len(appended) < MaxConfigFrames
       /\ \E img \in ConfigFrames : AnalyzeFrame(img, HistoryClock)

SpecConfig == InitConfig /\ [][NextConfig]_vars

(***************************************************************************)
(* SpecRaster: the rasterizer on frames of several sizes and fillings      *)
(***************************************************************************)
MaxRasterFrames == 1

NEAR_RED == <<215, 40, 0, 255>>
FAINT_BLUE == <<0, 0, 255, 128>>
DIM_BLUE == <<0, 0, 255, 129>>

\* The cells of one filling: 10 or 11 first pixels, and the rest of them.
RasterBlocks ==
    {Block(n, f[1], f[2]) :
        n \in {10, 11},
        f \in {<<RED, CLEAR>>, <<BLUE, CLEAR>>, <<NEAR_RED, GREEN>>,
               <<RED, FAINT_BLUE>>, <<RED, DIM_BLUE>>}}

RasterFrames ==
    {Frame(10, 10, <<<<b>>>>) : b \in RasterBlocks}
    \cup {Frame(25, 19, <<<<Block(10, RED, CLEAR), Block(11, RED, CLEAR)>>,
                         <<Block(11, RED, CLEAR), Block(11, RED, CLEAR)>>>>),
          Frame(30, 10, <<<<Block(11, BLUE, CLEAR), Block(10, RED, CLEAR),
                           Block(40, BLUE, DIM_BLUE)>>>>),
          Frame(19, 20, <<<<Block(11, RED, CLEAR), Block(10, RED, CLEAR)>>,
                         <<Block(40, BLUE, DIM_BLUE), Block(11, RED, CLEAR)>>>>),
          Frame(9, 10, <<<<Block(11, RED, CLEAR)>>>>),
          Frame(10, 9, <<<<Block(11, RED, CLEAR)>>>>)}

InitRaster == \E v \in {"field", "target"} : Constructed(v, <<10, 10>>)

NextRaster ==
    \/ \E enabled \in BOOLEAN : SetAnalysisEnabled(enabled)
    \/ \E hexColor \in {HexOf(RED), HexOf(BLUE)} : SetSelectedColor(hexColor)
    \/ \E img \in {LEGEND_RED_BLUE, LEGEND_BLUE} : LegendLoad(img)
    \/ /\ Len(appended) < MaxRasterFrames
       /\ \E img \in RasterFrames : AnalyzeFrame(img, HistoryClock)

SpecRaster == InitRaster /\ [][NextRaster]_vars

(***************************************************************************)
(* SpecField: the whole-field tracker on rasterized fields of rain         *)
(***************************************************************************)
MaxFieldFrames == 2

\* Cell i of a ramp: 5 * i red pixels, the others blue.
RampBlock(i) == Block(5 * i, RED, DIM_BLUE)
NoRain == Block(0, RED, CLEAR)

\* One row of 12 cells: a ramp moved k cells to the right.
ShiftedRamp(k) ==
    Frame(120, 10, <<[x \in 1..12 |-> IF x - 1 >= k THEN RampBlock(x - 1 - k) ELSE NoRain]>>)

\* Two rows of 6 cells: a ramp, and its upper row moved one row down.
FIELD_TWO_ROWS ==
    Frame(60, 20, <<[x \in 1..6 |-> RampBlock(x - 1)], [x \in 1..6 |-> RampBlock(x + 5)]>>)
FIELD_TWO_ROWS_DOWN ==
    Frame(60, 20, <<[x \in 1..6 |-> NoRain], [x \in 1..6 |-> RampBlock(x - 1)]>>)

FieldFrames ==
    {ShiftedRamp(0), ShiftedRamp(6), FIELD_TWO_ROWS, FIELD_TWO_ROWS_DOWN}

InitField == Constructed("field", <<10, 10>>)

NextField ==
    \/ \E enabled \in BOOLEAN : SetAnalysisEnabled(enabled)
    \/ \E img \in {LEGEND_RED_BLUE, LEGEND_BLUE} : LegendLoad(img)
    \/ /\ Len(appended) < MaxFieldFrames
       /\ \E img \in FieldFrames : AnalyzeFrame(img, HistoryClock)

SpecField == InitField /\ [][NextField]_vars

(***************************************************************************)
(* Claims                                                                  *)
(***************************************************************************)
\* The last n elements of s (all of s when it has fewer).
LastN(s, n) == IF Len(s) <= n THEN s ELSE SubSeq(s, Len(s) - n + 1, Len(s))

LastOf(s) == s[Len(s)]

\* C1: gridData never holds more than 10 records, and it holds exactly the
\* most recently appended ones (all of them up to 10, the last 10 beyond), in
\* the order they were appended: the oldest are the ones evicted.
C1_HistoryIsNewestTen ==
    /\ Len(gridData) <= 10
    /\ gridData = LastN(appended, 10)

\* C1 witness: eleven frames were appended, the first is gone, ten remain.
C1_Witness ==
    /\ Len(appended) = 11
    /\ Len(gridData) = 10
    /\ gridData[1] = appended[2]
    /\ gridData[1] # appended[1]
    /\ gridData[10] = appended[11]

\* C2: a run of analyzeFrame that appended its frame called the estimator
\* exactly once, on (last record before the append, new record), if the
\* history was non-empty and that record's timestamp differs from the new
\* one; otherwise it did not call it and left textContent as it was.
C2_EstimatorOncePerNewFrame ==
    (last.op = "analyzeFrame" /\ last.pushed) =>
        /\ gridData # <<>> /\ LastOf(gridData) = last.newRecord
        /\ IF last.prevGridData # <<>>
              /\ LastOf(last.prevGridData).timestamp # last.newRecord.timestamp
           THEN /\ last.estCalls = 1
                /\ last.estOld = LastOf(last.prevGridData)
                /\ last.estNew = last.newRecord
           ELSE /\ last.estCalls = 0
                /\ textContent = last.prevText

\* C2 witness: a frame with a new timestamp was appended to a non-empty
\* history and the estimator wrote its result.
C2_Witness ==
    /\ last.op = "analyzeFrame" /\ last.pushed
    /\ last.prevGridData # <<>>
    /\ last.estCalls = 1
    /\ textContent # last.prevText

\* A frame with the timestamp of the last record was appended: no estimate.
C2_DuplicateReached ==
    /\ last.op = "analyzeFrame" /\ last.pushed
    /\ last.prevGridData # <<>>
    /\ LastOf(last.prevGridData).timestamp = last.newRecord.timestamp
    /\ last.estCalls = 0

\* The ColorTable is non-empty.
TableNonEmpty(map) == ~map.isNull /\ Len(map.entries) > 0

\* C3: when the ColorTable is not non-empty (field variant) or no colour is
\* selected (target variant), analyzeFrame is a no-op: nothing is appended,
\* the estimator is not called, textContent is unchanged.
C3_NoOpWithoutTable ==
    (/\ last.op = "analyzeFrame"
     /\ IF variant = "field" THEN ~TableNonEmpty(legendColorMap)
        ELSE selectedColor = Null) =>
        /\ ~last.pushed
        /\ last.estCalls = 0
        /\ gridData = last.prevGridData
        /\ textContent = last.prevText

\* C3, as far as the code keeps it: analyzeFrame is a no-op when the table
\* was never parsed (field) or no colour is selected (target).
C3_NoOpWithoutParse ==
    (/\ last.op = "analyzeFrame"
     /\ IF variant = "field" THEN legendColorMap.isNull ELSE selectedColor = Null) =>
        /\ ~last.pushed
        /\ last.estCalls = 0
        /\ gridData = last.prevGridData
        /\ textContent = last.prevText

\* C4: a parseLegend that fails (load error or no colours) after a successful
\* one leaves legendColorMap and gridData as they were.
C4_FailedParseKeepsState ==
    (/\ last.op \in {"legendLoad", "legendError"}
     /\ last.rejected
     /\ TableNonEmpty(last.prevLegend)) =>
        /\ legendColorMap = last.prevLegend
        /\ gridData = last.prevGridData

\* C4, as far as the code keeps it: a failed parseLegend leaves gridData as
\* it was, and a load error leaves legendColorMap as it was.
C4_FailedParseKeepsHistory ==
    (last.op \in {"legendLoad", "legendError"} /\ last.rejected) =>
        /\ gridData = last.prevGridData
        /\ (last.op = "legendError" => legendColorMap = last.prevLegend)


\* The table keys in table order, and the squared Euclidean distance of the
\* classified pixel to key i.
TableKeys == IF legendColorMap.isNull THEN <<>> ELSE MapKeys(legendColorMap.entries)

KeyDistanceSq(i) == color_distance(last.rgb, ParseHex(TableKeys[i]))

\* The result is the closest entry, the first in table order among the
\* entries at the minimum distance.
C6_ResultIsFirstClosest ==
    \E i \in 1..Len(TableKeys) :
        /\ TableKeys[i] = last.hex
        /\ \A j \in 1..Len(TableKeys) : KeyDistanceSq(i) <= KeyDistanceSq(j)
        /\ \A j \in 1..(i - 1) : KeyDistanceSq(j) > KeyDistanceSq(i)

\* C6 as claimed: findClosestLegendColor returns none exactly when the
\* distance of the pixel to every table entry exceeds 100, and otherwise the
\* closest entry, the first in table order among equally close ones.
C6_NoneIffAllExceed ==
    last.op = "classify" =>
        IF \A i \in 1..Len(TableKeys) : KeyDistanceSq(i) > 100 * 100
        THEN last.hex = Null
        ELSE C6_ResultIsFirstClosest

\* C6 amended: findClosestLegendColor returns none exactly when the distance
\* of the pixel to every table entry is at least 100 (a pixel at distance
\* exactly 100 of its closest entry is not matched), and otherwise the
\* closest entry, the first in table order among equally close ones.
C6_NoneIffNoneBelow ==
    last.op = "classify" =>
        IF \A i \in 1..Len(TableKeys) : KeyDistanceSq(i) >= 100 * 100
        THEN last.hex = Null
        ELSE C6_ResultIsFirstClosest

\* C6 witness: two entries are equally close to the pixel, closer than 100,
\* and the first of them in table order is returned.
C6_Witness ==
    /\ last.op = "classify"
    /\ last.hex # Null
    /\ \E i, j \in 1..Len(TableKeys) :
          /\ i < j
          /\ TableKeys[i] = last.hex
          /\ KeyDistanceSq(i) = KeyDistanceSq(j)
          /\ KeyDistanceSq(i) < 100 * 100
          /\ KeyDistanceSq(i) > 0

\* A pixel at distance exactly 100 of its closest entry is classified none.
C6_BoundaryReached ==
    /\ last.op = "classify"
    /\ last.hex = Null
    /\ \E i \in 1..Len(TableKeys) : KeyDistanceSq(i) = 100 * 100


\* The columns parseLegend samples in each row, and the pixels it accepts.
SampledColumns(v, img) ==
    IF v = "field" THEN {img.width \div 2}
    ELSE {x \in 0..(img.width - 1) : 4 * x >= img.width /\ 4 * x < 3 * img.width}

QualifyingPixel(v, p) ==
    /\ p[4] > 200
    /\ p[1] + p[2] + p[3] < 700
    /\ (v = "target" => ~(Abs(p[1] - p[2]) < 10 /\ Abs(p[2] - p[3]) < 10))

PixelOf(img, x, y) == img.px[y + 1][x + 1]

\* The colours of the qualifying sampled pixels of row y.
RowColours(v, img, y) ==
    {HexOf(PixelOf(img, x, y)) : x \in {c \in SampledColumns(v, img) :
                                          QualifyingPixel(v, PixelOf(img, c, y))}}

RECURSIVE FirstSeen(_, _, _)
\* The set of <<colour, row>> for the colours first seen in the rows below y:
\* a row yields the leftmost qualifying sampled colour not seen in an
\* earlier row, if it has one.
FirstSeen(v, img, y) ==
    IF y = 0 THEN {}
    ELSE LET before == FirstSeen(v, img, y - 1)
             fresh == {x \in SampledColumns(v, img) :
                          /\ QualifyingPixel(v, PixelOf(img, x, y - 1))
                          /\ \A s \in before : s[1] # HexOf(PixelOf(img, x, y - 1))}
         IN  IF fresh = {} THEN before
             ELSE LET x0 == CHOOSE x \in fresh : \A z \in fresh : x <= z
                  IN  before \cup {<<HexOf(PixelOf(img, x0, y - 1)), y - 1>>}

HasQualifyingPixel(v, img) ==
    \E y \in 0..(img.height - 1) : RowColours(v, img, y) # {}

\* C7: after parseLegend of a legend image with at least one qualifying
\* pixel, the ColorTable holds N >= 1 pairwise distinct colours with the ranks
\* 1..N, each colour ranked by the row at which it was first seen (rank = 1 +
\* the number of colours first seen at an earlier row), and it holds nothing
\* else: the colours are those first seen in this image, whatever the table
\* held before.
C7_RanksByFirstSeenRow ==
    (last.op = "legendLoad" /\ HasQualifyingPixel(variant, last.img)) =>
        LET entries == legendColorMap.entries
            N == Len(entries)
            seen == FirstSeen(variant, last.img, last.img.height)
        IN  /\ ~legendColorMap.isNull /\ ~last.rejected
            /\ N >= 1
            /\ \A i, j \in 1..N : i # j => entries[i][1] # entries[j][1]
            /\ {entries[i][2] : i \in 1..N} = 1..N
            /\ {entries[i] : i \in 1..N} =
                  {<<s[1], 1 + Cardinality({t \in seen : t[2] < s[2]})>> : s \in seen}
            /\ \A i, j \in 1..N : \A s, t \in seen :
                  (s[1] = entries[i][1] /\ t[1] = entries[j][1] /\ s[2] < t[2])
                      => entries[i][2] < entries[j][2]

\* C7 witness: three colours first seen at rows 0, 1, 2 have the ranks 1, 2,
\* 3, and a colour of the table parsed before is gone.
C7_Witness ==
    /\ last.op = "legendLoad" /\ ~last.rejected
    /\ Len(legendColorMap.entries) = 3
    /\ \A i \in 1..3 :
          /\ legendColorMap.entries[i][2] = i
          /\ <<legendColorMap.entries[i][1], i - 1>>
                \in FirstSeen(variant, last.img, last.img.height)
    /\ last.dropped

\* The last handler was analyzeFrame and called the estimator.
Estimated == last.op = "analyzeFrame" /\ last.estCalls = 1

\* The displacement handed to calculateSpeed is zero: both cell deltas are 0
\* (single target), the pixel distance is below 1 (whole field; the deltas
\* are fractions of cells, a cell is 10 pixels).
ZeroDisplacement ==
    LET dx == last.out.dxCells
        dy == last.out.dyCells
    IN  IF variant = "field"
        THEN 100 * (dx[1] * dx[1] * dy[2] * dy[2] + dy[1] * dy[1] * dx[2] * dx[2])
               < dx[2] * dx[2] * dy[2] * dy[2]
        ELSE dx[1] = 0 /\ dy[1] = 0

\* analyzeFrame got a frame that is not later than the last record.
StaleFrame ==
    /\ last.op = "analyzeFrame" /\ last.ran
    /\ last.prevGridData # <<>>
    /\ last.newRecord.timestamp[1] <= LastOf(last.prevGridData).timestamp[1]

\* C5 as claimed: a frame whose elapsed time to the previous record is not
\* positive (equal or out of order) leaves textContent as it was.
C5_StaleFrameLeavesText == StaleFrame => textContent = last.prevText

\* C5 amended: for a frame whose elapsed time to the previous record is not
\* positive no speed is written; textContent keeps its value when the two
\* timestamps are the same string (no estimate is made) and when the
\* estimator finds a displacement that is not zero (calculateSpeed returns
\* silently); the estimator's 'stationary', 'ambiguous motion' and 'no
\* target' results are still written.
C5_StaleFrameWritesNoSpeed ==
    StaleFrame =>
        /\ \/ textContent = last.prevText
           \/ textContent \in {TEXT_STATIONARY, TEXT_UNCLEAR, TEXT_NO_TARGET}
        /\ (last.newRecord.timestamp = LastOf(last.prevGridData).timestamp
               => textContent = last.prevText)
        /\ (last.out.speedCall /\ ~ZeroDisplacement => textContent = last.prevText)

\* C5 witness: the estimator found a displacement that is not zero between
\* two frames of the same instant (differently spelled timestamps), and
\* textContent kept the status it had.
C5_Witness ==
    /\ StaleFrame /\ last.pushed
    /\ last.newRecord.timestamp # LastOf(last.prevGridData).timestamp
    /\ last.newRecord.timestamp[1] = LastOf(last.prevGridData).timestamp[1]
    /\ last.out.speedCall /\ ~ZeroDisplacement
    /\ textContent = last.prevText

\* A stale frame for which a status was written all the same.
C5_StatusWrittenReached ==
    /\ StaleFrame
    /\ last.newRecord.timestamp[1] < LastOf(last.prevGridData).timestamp[1]
    /\ textContent # last.prevText
    /\ textContent = TEXT_STATIONARY

\* C10: whenever the estimated displacement is zero (both cell deltas 0; in
\* the whole-field variant pixel distance below 1), textContent is set to
\* 'stationary', so no speed string is written for that pair of frames.
C10_ZeroDisplacementIsStationary ==
    (last.op = "analyzeFrame" /\ last.out.speedCall /\ ZeroDisplacement) =>
        /\ textContent = TEXT_STATIONARY
        /\ textContent.msg # "speed"

\* C10 witness: the whole-field mean displacement is not zero but shorter
\* than one pixel, and 'stationary' replaced what textContent held.
C10_Witness ==
    /\ variant = "field"
    /\ last.op = "analyzeFrame" /\ last.out.speedCall /\ ZeroDisplacement
    /\ last.out.dxCells[1] # 0
    /\ textContent = TEXT_STATIONARY
    /\ last.prevText # TEXT_STATIONARY

\* The single-target displacement is (0, 0) and 'stationary' was written.
C10_TargetReached ==
    /\ variant = "target"
    /\ last.op = "analyzeFrame" /\ last.out.speedCall /\ ZeroDisplacement
    /\ textContent = TEXT_STATIONARY
    /\ last.prevText # TEXT_STATIONARY

\* A speed was written for a displacement that is not zero.
SpeedWrittenReached ==
    /\ last.op = "analyzeFrame" /\ last.out.speedCall /\ ~ZeroDisplacement
    /\ textContent.msg = "speed"


\* The two grids of the estimate, older and newer, and what is in a grid.
OlderGrid == last.estOld.grid
NewerGrid == last.estNew.grid

InGrid(grid, x, y) ==
    /\ y >= 0 /\ y < Len(grid)
    /\ x >= 0 /\ x < Len(grid[y + 1])

CellsOf(grid) ==
    UNION {{<<x, y - 1>> : x \in 0..(Len(grid[y]) - 1)} : y \in 1..Len(grid)}

\* d comes before e in row-major order.
RowMajorBefore(d, e) == d[2] < e[2] \/ (d[2] = e[2] /\ d[1] <= e[1])

RECURSIVE SumOf(_, _)
\* The sum of component k of the vectors assigned to the cells of S by f.
SumOf(S, f) ==
    IF S = {} THEN 0
    ELSE LET c == CHOOSE c \in S : TRUE
         IN  f[c] + SumOf(S \ {c}, f)

\* The in-grid cells of the newer grid in the radius-5 square around c.
Window5(c) ==
    {d \in CellsOf(NewerGrid) : Abs(d[1] - c[1]) <= 5 /\ Abs(d[2] - c[2]) <= 5}

\* | older[c] - newer[d] |
ValueDifference(c, d) ==
    FracAbsDiff(OlderGrid[c[2] + 1][c[1] + 1], NewerGrid[d[2] + 1][d[1] + 1])

\* The older-grid cells whose vector is accepted: value > 0.1, and minimum
\* difference over the window < 0.5.
AcceptedCells ==
    {c \in CellsOf(OlderGrid) :
        /\ 10 * OlderGrid[c[2] + 1][c[1] + 1][1] > OlderGrid[c[2] + 1][c[1] + 1][2]
        /\ \E d \in Window5(c) :
              2 * ValueDifference(c, d)[1] < ValueDifference(c, d)[2]}

\* The cell of minimum difference, the first in scan order among several.
BestMatchOf(c) ==
    CHOOSE d \in Window5(c) :
        \A e \in Window5(c) :
            \/ FracLess(ValueDifference(c, d), ValueDifference(c, e))
            \/ (FracEq(ValueDifference(c, d), ValueDifference(c, e)) /\ RowMajorBefore(d, e))

\* What C8 says of an estimate of trackMovement.
C8_Holds ==
    LET n == Cardinality(AcceptedCells)
        sumDx == SumOf(AcceptedCells, [c \in AcceptedCells |-> BestMatchOf(c)[1] - c[1]])
        sumDy == SumOf(AcceptedCells, [c \in AcceptedCells |-> BestMatchOf(c)[2] - c[2]])
    IN  IF n >= 11
        THEN /\ last.out.speedCall
             /\ FracEq(last.out.dxCells, <<sumDx, n>>)
             /\ FracEq(last.out.dyCells, <<sumDy, n>>)
        ELSE /\ ~last.out.speedCall
             /\ textContent = TEXT_UNCLEAR

\* C8: trackMovement hands a displacement to calculateSpeed only when at
\* least 11 vectors were accepted, and it is the arithmetic mean of the
\* accepted vectors; with 10 or fewer it writes 'ambiguous motion' and no
\* speed.  A vector is accepted for an older-grid cell of value > 0.1 when
\* the minimum difference over the in-grid cells of its radius-5 window in
\* the newer grid is < 0.5.
C8_MeanOfAtLeastElevenVectors ==
    (Estimated /\ variant = "field") => C8_Holds

\* The two grids have the same dimensions and at least one row.
Congruent(grid1, grid2) ==
    /\ Len(grid1) > 0
    /\ Len(grid1) = Len(grid2)
    /\ \A y \in 1..Len(grid1) : Len(grid1[y]) = Len(grid2[y])

\* C8 as far as the code keeps it: on two grids of the same dimensions.
C8_OnCongruentGrids ==
    (Estimated /\ variant = "field" /\ Congruent(OlderGrid, NewerGrid)) => C8_Holds

\* Exactly eleven vectors were accepted and their mean went to calculateSpeed.
C8_ElevenReached ==
    /\ Estimated /\ variant = "field" /\ Congruent(OlderGrid, NewerGrid)
    /\ Cardinality(AcceptedCells) = 11
    /\ last.out.speedCall

\* Exactly ten vectors were accepted (an eleventh cell found no value closer
\* than 0.5): 'ambiguous motion'.
C8_TenReached ==
    /\ Estimated /\ variant = "field" /\ Congruent(OlderGrid, NewerGrid)
    /\ Cardinality(AcceptedCells) = 10
    /\ textContent = TEXT_UNCLEAR


\* The reference cell: the cell of the centre of the map.
ReferenceCell == <<(mapSize[1] \div 2) \div 10, (mapSize[2] \div 2) \div 10>>

ActiveCells(grid) == {c \in CellsOf(grid) : grid[c[2] + 1][c[1] + 1] = <<1, 1>>}

\* The active in-grid cells of the newer grid in the radius-8 square around
\* the reference cell.
Candidates8 ==
    {d \in ActiveCells(NewerGrid) :
        Abs(d[1] - ReferenceCell[1]) <= 8 /\ Abs(d[2] - ReferenceCell[2]) <= 8}

DistanceSq(d) ==
    (d[1] - ReferenceCell[1]) * (d[1] - ReferenceCell[1])
      + (d[2] - ReferenceCell[2]) * (d[2] - ReferenceCell[2])

\* The candidate of minimum distance, the first in row-major order among
\* equally distant ones.
NearestCandidate ==
    CHOOSE d \in Candidates8 :
        \A e \in Candidates8 :
            \/ DistanceSq(d) < DistanceSq(e)
            \/ (DistanceSq(d) = DistanceSq(e) /\ RowMajorBefore(d, e))

\* What C9 says of an estimate of trackMovementFromCenter.
C9_Holds ==
    IF ReferenceCell \notin ActiveCells(OlderGrid)
    THEN textContent = TEXT_NO_TARGET /\ ~last.out.speedCall
    ELSE IF Candidates8 = {}
    THEN textContent = TEXT_UNCLEAR /\ ~last.out.speedCall
    ELSE /\ last.out.speedCall
         /\ last.out.dxCells = <<NearestCandidate[1] - ReferenceCell[1], 1>>
         /\ last.out.dyCells = <<NearestCandidate[2] - ReferenceCell[2], 1>>

\* C9: trackMovementFromCenter reports 'no target at reference' when the
\* reference cell of the older grid is inactive; otherwise, if the radius-8
\* square around the reference holds no in-grid active cell of the newer
\* grid, 'ambiguous motion'; otherwise the displacement is that of the
\* active cell of minimum squared distance, the first in row-major order
\* among equally distant cells.  For every pair of grids.
C9_NearestActiveCell ==
    (Estimated /\ variant = "target") => C9_Holds

\* C9 as far as the code keeps it: on two grids of the same dimensions.
C9_OnCongruentGrids ==
    (Estimated /\ variant = "target" /\ Congruent(OlderGrid, NewerGrid)) => C9_Holds

\* Several active cells at the minimum distance: the first in row-major
\* order gave the displacement.
C9_TieReached ==
    /\ Estimated /\ variant = "target" /\ last.out.speedCall
    /\ \E d, e \in Candidates8 : d # e /\ DistanceSq(d) = DistanceSq(e)
                                  /\ d = NearestCandidate

\* A nearer active cell that comes later in the scan gave the displacement.
C9_LaterNearerReached ==
    /\ Estimated /\ variant = "target" /\ last.out.speedCall
    /\ \E e \in Candidates8 : e # NearestCandidate /\ RowMajorBefore(e, NearestCandidate)

\* The only active cell lies outside the radius-8 square: 'ambiguous motion'.
C9_OutOfRadiusReached ==
    /\ Estimated /\ variant = "target"
    /\ ActiveCells(NewerGrid) # {} /\ Candidates8 = {}
    /\ textContent = TEXT_UNCLEAR

\* The estimator ended by a TypeError: nothing was written, nothing pushed.
EstimatorThrewReached ==
    /\ Estimated /\ last.threw /\ ~last.pushed
    /\ textContent = last.prevText /\ gridData = last.prevGridData


\* The table and colour the records now in gridData were rasterized with.
HeldUnder == LastN(under, Len(gridData))

\* C11: all records held in gridData were rasterized with the same target
\* colour and the same legendColorMap (a change of either one empties
\* gridData), so the estimator never compares grids of different ones.
C11_HistoryRasterizedAlike ==
    \A i, j \in 1..Len(HeldUnder) : HeldUnder[i] = HeldUnder[j]

\* What the code keeps: the records held were rasterized with one colour.
C11_HistoryOfOneColour ==
    \A i, j \in 1..Len(HeldUnder) :
        HeldUnder[i].selectedColor = HeldUnder[j].selectedColor

\* A frame of red rain was rasterized twice, with two tables, the two grids
\* differ, and the estimator compared them.
C11_ComparedAcrossTables ==
    /\ last.op = "analyzeFrame"
    /\ last.estCalls = 1
    /\ Len(gridData) = 2
    /\ HeldUnder[1].legendColorMap # HeldUnder[2].legendColorMap
    /\ ~HeldUnder[1].legendColorMap.isNull
    /\ Len(HeldUnder[1].legendColorMap.entries) > 0
    /\ Len(HeldUnder[2].legendColorMap.entries) > 0
    /\ gridData[1].grid # gridData[2].grid


\* The input of C11: blue rain rasterized with the legend of blue alone (rank
\* 1) and then with the legend red, blue (rank 2).
C11_BlueRainTwoRanks ==
    /\ variant = "field"
    /\ Len(gridData) = 2
    /\ gridData[1].grid = <<<<<<20, 20>>>>>>
    /\ gridData[2].grid = <<<<<<40, 20>>>>>>
    /\ last.estCalls = 1


\* C12: every analyzeFrame that passes its first test runs to its end
\* without raising an error and leaves the new frame as the last record of
\* gridData, whatever the dimensions of the frame and of the one before it.
C12_AnalysisCompletes ==
    (last.op = "analyzeFrame" /\ last.ran) =>
        /\ ~last.threw
        /\ last.pushed
        /\ Len(gridData) > 0
        /\ LastOf(gridData) = last.newRecord

\* The frame before was less than GRID_SIZE pixels high: its grid has no
\* rows, grid1[0] is undefined and the estimator raised a TypeError.
C12_NoRowsReached ==
    /\ last.op = "analyzeFrame"
    /\ last.threw
    /\ ~last.pushed
    /\ GridRows(last.estOld.grid) = 0
    /\ LastOf(gridData) = last.estOld

\* The new frame has fewer rows than the one before: grid2[newY] is
\* undefined for a row of the older grid and the estimator raised a TypeError.
C12_FewerRowsReached ==
    /\ last.op = "analyzeFrame"
    /\ last.threw
    /\ ~last.pushed
    /\ GridRows(last.estOld.grid) > GridRows(last.estNew.grid)
    /\ GridRows(last.estNew.grid) > 0


\* The pixels of cell (gx, gy) of a frame, both counted from 0.
CellPixels(gx, gy) ==
    {<<gx * 10 + x, gy * 10 + y>> : x \in 0..9, y \in 0..9}

\* The legend colour pixel p of the frame classifies to, Null for none.
LegendColourOf(img, p) ==
    LET px == PixelAt(img, p[1], p[2])
    IN  findClosestLegendColor(legendColorMap, px[1], px[2], px[3])

\* The pixels of a cell that count: alpha above 128, and classified to the
\* target colour (target variant) or to any legend colour (field variant).
MatchedPixels(img, gx, gy) ==
    {p \in CellPixels(gx, gy) :
        /\ PixelAt(img, p[1], p[2])[4] > 128
        /\ IF variant = "target"
           THEN LegendColourOf(img, p) = selectedColor
           ELSE LegendColourOf(img, p) # Null}

RECURSIVE SumOfRanksFrom(_, _, _)
\* The ranks of the pixels of S added up, entry k of the table onwards:
\* each entry's rank times the number of pixels of its colour.
SumOfRanksFrom(img, S, k) ==
    IF k > Len(legendColorMap.entries) THEN 0
    ELSE legendColorMap.entries[k][2]
             * Cardinality({p \in S : LegendColourOf(img, p) = legendColorMap.entries[k][1]})
         + SumOfRanksFrom(img, S, k + 1)

SumOfRanks(img, S) == SumOfRanksFrom(img, S, 1)

\* The value the claim gives cell (gx, gy) of the grid of a frame.
ExpectedCell(img, gx, gy) ==
    LET matched == MatchedPixels(img, gx, gy)
    IN  IF 10 * Cardinality(matched) > 10 * 10
        THEN IF variant = "target" THEN One
             ELSE <<SumOfRanks(img, matched), Cardinality(matched)>>
        ELSE Zero

C13_MeanOfRanksReached ==
    /\ variant = "field"
    /\ last.op = "analyzeFrame"
    /\ last.ran
    /\ last.img.width = 30
    /\ Len(legendColorMap.entries) = 2
    /\ last.newRecord.grid[1][3] = <<200, 100>>
    /\ last.newRecord.grid[1][1] = <<22, 11>>

\* Pixels of alpha 128 do not count: 11 red pixels and 89 blue ones of
\* alpha 128 give a cell of rank 1.
C13_AlphaReached ==
    /\ variant = "field"
    /\ last.op = "analyzeFrame"
    /\ last.ran
    /\ Len(legendColorMap.entries) = 2
    /\ last.img = Frame(10, 10, <<<<Block(11, RED, FAINT_BLUE)>>>>)
    /\ last.newRecord.grid = <<<<<<11, 11>>>>>>


\* What C14 says of one step of the tracker.
C14_Step ==
    /\ (last'.op = "setAnalysisEnabled" /\ ~isEnabled') =>
           (gridData' = <<>> /\ textContent' = TEXT_DISABLED)
    /\ (last'.op = "analyzeFrame" /\ ~isEnabled) =>
           (~last'.ran /\ UNCHANGED <<gridData, textContent, isEnabled>>)
    /\ (~isEnabled /\ isEnabled') => (gridData = <<>> /\ gridData' = <<>>)
    /\ (last'.op = "analyzeFrame" /\ last'.ran /\ gridData = <<>>) =>
           (last'.estCalls = 0 /\ gridData' = <<last'.newRecord>>)

\* C14: setAnalysisEnabled(false) leaves gridData empty and the results
\* element showing "--"; while analysis is disabled analyzeFrame changes
\* neither; analysis is re-enabled on an empty gridData, and the first frame
\* analysed on an empty gridData calls no estimator: no frame is compared
\* with a frame from before the disabling.
C14_DisableForgetsHistory == [][C14_Step]_vars

\* C14 witness: setAnalysisEnabled(false) was called on a gridData holding
\* records; it is empty now and the results element shows "--".
C14_Witness ==
    /\ last.op = "setAnalysisEnabled"
    /\ last.cleared
    /\ ~isEnabled
    /\ gridData = <<>>
    /\ textContent = TEXT_DISABLED

\* analyzeFrame was called while analysis was disabled, with a legend parsed
\* (and a colour selected): it did nothing.
C14_DisabledFrameReached ==
    /\ last.op = "analyzeFrame"
    /\ ~last.ran
    /\ ~isEnabled
    /\ ~legendColorMap.isNull
    /\ variant = "target" => selectedColor # Null
    /\ gridData = <<>>


\* A cell value is 0, or lies between 1 and the number of colours of map.
RankOrZero(value, map) ==
    \/ value = Zero
    \/ /\ value[2] > 0
       /\ value[1] >= value[2]
       /\ value[1] <= Len(map.entries) * value[2]

\* Every cell of the grid is 0 or between 1 and the size of the table the
\* grid was rasterized with.
RanksOrZero(grid, map) ==
    \A y \in 1..Len(grid) : \A x \in 1..Len(grid[y]) : RankOrZero(grid[y][x], map)

\* The best match trackMovement finds for cell c of the older grid.
MatchOf(c) ==
    SearchWindow(OlderGrid, NewerGrid, GridRows(OlderGrid), GridCols(OlderGrid),
                 c[2], c[1], -SEARCH_RADIUS, NoMatch)

\* Cell c of the older grid has rain and its best match is accepted.
Accepted(c) == HasRain(Cell(OlderGrid, c[2], c[1])) /\ Reasonable(MatchOf(c).error)

\* What C15 says of the accepted match of cell c.
C15_Match(c) ==
    LET bestMatch == MatchOf(c)
    IN  /\ Cell(OlderGrid, c[2], c[1])[1] >= Cell(OlderGrid, c[2], c[1])[2]
        /\ HasCell(NewerGrid, bestMatch.y, bestMatch.x)
        /\ Cell(NewerGrid, bestMatch.y, bestMatch.x)[1]
              >= Cell(NewerGrid, bestMatch.y, bestMatch.x)[2]
        /\ Abs(bestMatch.x - c[1]) <= 5
        /\ Abs(bestMatch.y - c[2]) <= 5

\* C15: in the field variant every cell of a grid is 0 or lies between 1
\* and N, the size of the table the grid was rasterized with; every match
\* trackMovement accepts pairs an active cell of the older grid with an
\* active cell of the newer grid, at most 5 cells away in x and in y; each
\* component of the mean displacement lies in [-5, 5].
C15_ActiveCellsWithinRadius ==
    variant = "field" =>
        /\ \A i \in 1..Len(gridData) :
               RanksOrZero(gridData[i].grid, HeldUnder[i].legendColorMap)
        /\ (last.op = "analyzeFrame" /\ last.ran) =>
               RanksOrZero(last.newRecord.grid, legendColorMap)
        /\ (Estimated /\ ~last.threw) =>
               /\ \A c \in CellsOf(OlderGrid) : Accepted(c) => C15_Match(c)
               /\ last.out.speedCall =>
                      /\ Abs(last.out.dxCells[1]) <= 5 * last.out.dxCells[2]
                      /\ Abs(last.out.dyCells[1]) <= 5 * last.out.dyCells[2]

\* C15 witness: a ramp of 12 cells and the same ramp 6 cells to the right;
\* the vectors of 11 cells are accepted, one of them 5 cells long, and the
\* mean went to calculateSpeed.
C15_Witness ==
    /\ variant = "field"
    /\ Estimated
    /\ ~last.threw
    /\ last.out.speedCall
    /\ last.out.vectorCount = 11
    /\ Cardinality({c \in CellsOf(OlderGrid) : Accepted(c)}) = 11
    /\ \E c \in CellsOf(OlderGrid) : MatchOf(c).x - c[1] = 5
    /\ \E c \in CellsOf(NewerGrid) : Cell(NewerGrid, c[2], c[1]) = Zero
    /\ \E c \in CellsOf(OlderGrid) : Cell(OlderGrid, c[2], c[1]) = <<200, 100>>

\* The best match of a cell with rain is a cell without: it is not accepted.
C15_ZeroMatchReached ==
    /\ variant = "field"
    /\ Estimated
    /\ ~last.threw
    /\ \E c \in CellsOf(OlderGrid) :
           /\ HasRain(Cell(OlderGrid, c[2], c[1]))
           /\ Cell(NewerGrid, MatchOf(c).y, MatchOf(c).x) = Zero
           /\ ~Accepted(c)

\* A vector with a component in y was accepted, and one in negative x.
C15_BothAxesReached ==
    /\ variant = "field"
    /\ Estimated
    /\ ~last.threw
    /\ \E c \in CellsOf(OlderGrid) : Accepted(c) /\ MatchOf(c).y - c[2] = 1
    /\ \E c \in CellsOf(OlderGrid) : Accepted(c) /\ MatchOf(c).x - c[1] < 0

\* A grid held in gridData has a cell above the size of the table in use:
\* the legend was parsed again after the frame (see C11).
C15_AboveCurrentTableReached ==
    /\ variant = "field"
    /\ \E i \in 1..Len(gridData) : ~RanksOrZero(gridData[i].grid, legendColorMap)

====
